---- MODULE Spec2Model ----
(***************************************************************************)
(* State-machine model of the HRMS client: the role predicates, the route  *)
(* guard, the attendance page (punch-in / punch-out) and the leave page    *)
(* (submit / approve / reject), running as page instances against one      *)
(* shared remote store.                                                     *)
(***************************************************************************)
EXTENDS Integers, Sequences, FiniteSets, TLC

\* null / undefined
None == "none"

\* null in a timestamp or date column
NullTime == -1

\* type UserRole
Roles == {"SUPERADMIN", "ADMIN", "HR", "HOD", "MANAGER", "DIRECTOR", "EMPLOYEE"}

\* identities known to the auth provider (one profiles row each)
Users == {"u1", "u2"}

\* page instances (browser tabs), each with its own React state
Pages == {"p1", "p2"}

\* ---------------------------------------------------------------- bounds
MaxCalls == 2
MaxLeave == 1
MaxDate == 2
MaxNow == 1
MaxAttendance == 2
MaxRequests == 2
MaxSpan == 2
TicksPerDay == 2

VARIABLES
    \* useAuth() context of each page instance
    user, profile, loading,
    \* router location and rendered element of each page instance
    path, view,
    \* store tables: profiles (user id -> role), leave_requests, attendance
    profiles, leave_requests, attendance,
    \* whether the store's attendance table rejects a second row for one
    \* (user_id, date)
    uniqueUserDate,
    \* wall clock
    now,
    \* component state of the page shown by each page instance
    isLoading, pc,
    \* the message shown last (by toast() or by the browser), and the page
    \* instance that showed it
    toast,
    \* LeavePage state
    leaveRequests, myRequests, showForm,
    \* AttendancePage state: todayAttendance, the fetchTodayAttendance calls
    \* in flight, and the record id a running handlePunchOut captured
    todayAttendance, fetching, punchTarget,
    \* log of role-predicate evaluations
    calls,
    \* store table profiles, columns is_active and department_id
    is_active, department_id,
    \* ReportsPage state: stats, departmentData, weeklyData, and the results a
    \* running fetchAttendanceStats holds between its store reads
    stats, departmentData, weeklyData, frame,
    \* EmployeesPage state
    employees

authVars == <<user, profile, loading>>
routeVars == <<path, view>>
storeVars == <<profiles, is_active, department_id, leave_requests, attendance,
               uniqueUserDate>>
compVars == <<isLoading, toast, pc>>
leaveVars == <<leaveRequests, myRequests, showForm>>
attVars == <<todayAttendance, fetching, punchTarget>>
reportVars == <<stats, departmentData, weeklyData, frame, employees>>

vars == <<user, profile, loading, path, view, profiles, leave_requests, attendance,
          uniqueUserDate, now, isLoading, toast, pc, leaveRequests, myRequests,
          showForm, todayAttendance, fetching, punchTarget, calls, is_active,
          department_id, stats, departmentData, weeklyData, frame, employees>>

\* ------------------------------------------------------------ Role Model

isAdmin_WithHOD(role) ==
    IF role # None THEN role \in {"SUPERADMIN", "ADMIN", "HR", "HOD"} ELSE FALSE

canManageEmployees_WithDirector(role) ==
    IF role # None
    THEN role \in {"SUPERADMIN", "ADMIN", "HR", "HOD", "MANAGER", "DIRECTOR"}
    ELSE FALSE

isAdmin(role) ==
    IF role # None THEN role \in {"SUPERADMIN", "ADMIN", "HR"} ELSE FALSE

canManageEmployees(role) ==
    IF role # None
    THEN role \in {"SUPERADMIN", "ADMIN", "HR", "HOD", "MANAGER"}
    ELSE FALSE

\* a null profile (no row fetched)
NoProfile == [id |-> None, role |-> None]

\* profile?.role
RoleOf(pr) == IF pr = NoProfile THEN None ELSE pr.role

\* getUserProfile: the profiles row of userId, or null when the query fails
getUserProfile(userId, ok) ==
    IF ok THEN [id |-> userId, role |-> profiles[userId]] ELSE NoProfile

\* ---------------------------------------------------------- Access Guard

Paths == {"/", "/auth", "/dashboard", "/attendance", "/employees", "/reports",
          "/leave-requests", "/departments", "/other"}

\* what a page instance shows: a loading indicator, a <Navigate to=.../>, or a page
Spinner == [kind |-> "spinner", to |-> None, page |-> None, body |-> None]
NavigateTo(target) == [kind |-> "Navigate", to |-> target, page |-> None, body |-> None]

\* the page components' own permission checks (EmployeesPage, ReportsPage,
\* DepartmentsPage show a no-permission message instead of their content)
PageBody(page, pr) ==
    CASE page \in {"EmployeesPage", "ReportsPage"} ->
            IF ~canManageEmployees(RoleOf(pr)) THEN "noPermission" ELSE "content"
      [] page = "DepartmentsPage" ->
            IF ~isAdmin(RoleOf(pr)) THEN "noPermission" ELSE "content"
      [] OTHER -> "content"

PageElem(page, pr) ==
    [kind |-> "page", to |-> None, page |-> page, body |-> PageBody(page, pr)]

ProtectedRoute_NoAuthCheck(u, pr, ld, requiredRole, children) ==
    IF ld THEN Spinner
    ELSE IF requiredRole.given /\ pr # NoProfile /\ pr.role \notin requiredRole.roles
         THEN NavigateTo("/dashboard")
         ELSE children

ProtectedRoute(u, pr, ld, requiredRole, children) ==
    IF ld THEN Spinner
    ELSE IF u = None THEN NavigateTo("/auth")
    ELSE IF requiredRole.given /\ pr # NoProfile /\ pr.role \notin requiredRole.roles
         THEN NavigateTo("/dashboard")
         ELSE children

\* the requiredRole prop of each route (given = FALSE: the prop is not passed)
RequiredRole_WithDirector(pa) ==
    CASE pa \in {"/employees", "/reports"} ->
            [given |-> TRUE,
             roles |-> {"SUPERADMIN", "ADMIN", "HR", "HOD", "MANAGER", "DIRECTOR"}]
      [] pa = "/departments" ->
            [given |-> TRUE, roles |-> {"SUPERADMIN", "ADMIN", "HR"}]
      [] OTHER -> [given |-> FALSE, roles |-> {}]

RequiredRole(pa) ==
    CASE pa \in {"/employees", "/reports"} ->
            [given |-> TRUE, roles |-> {"SUPERADMIN", "ADMIN", "HR", "HOD", "MANAGER"}]
      [] pa = "/departments" ->
            [given |-> TRUE, roles |-> {"SUPERADMIN", "ADMIN", "HR"}]
      [] OTHER -> [given |-> FALSE, roles |-> {}]

RoutePage(pa) ==
    CASE pa = "/dashboard" -> "Dashboard"
      [] pa = "/attendance" -> "AttendancePage"
      [] pa = "/employees" -> "EmployeesPage"
      [] pa = "/reports" -> "ReportsPage"
      [] pa = "/leave-requests" -> "LeavePage"
      [] pa = "/departments" -> "DepartmentsPage"
      [] OTHER -> "NotFound"

ProtectedPaths == {"/dashboard", "/attendance", "/employees", "/reports",
                   "/leave-requests", "/departments"}

AppContent_AuthLoop(u, pr, ld, pa) ==
    IF ld THEN Spinner
    ELSE CASE pa = "/" -> NavigateTo("/auth")
           [] pa = "/auth" ->
                IF u # None THEN NavigateTo("/") ELSE PageElem("AuthPage", pr)
           [] pa \in ProtectedPaths ->
                ProtectedRoute(u, pr, ld, RequiredRole(pa), PageElem(RoutePage(pa), pr))
           [] OTHER -> PageElem("NotFound", pr)

AppContent(u, pr, ld, pa) ==
    IF ld THEN Spinner
    ELSE CASE pa = "/" ->
                IF u # None THEN NavigateTo("/dashboard") ELSE NavigateTo("/auth")
           [] pa = "/auth" ->
                IF u # None THEN NavigateTo("/dashboard") ELSE PageElem("AuthPage", pr)
           [] pa \in ProtectedPaths ->
                ProtectedRoute(u, pr, ld, RequiredRole(pa), PageElem(RoutePage(pa), pr))
           [] OTHER -> PageElem("NotFound", pr)

\* ----------------------------------------------- session and navigation

\* the auth provider reports a session (sign-in or session restore) and the
\* profile row is fetched with getUserProfile
SignIn(p, u, ok) ==
    /\ user[p] = None
    /\ user' = [user EXCEPT ![p] = u]
    /\ loading' = [loading EXCEPT ![p] = FALSE]
    /\ profile' = [profile EXCEPT ![p] = getUserProfile(u, ok)]
    /\ view' = [view EXCEPT ![p] = AppContent(user'[p], profile'[p], loading'[p], path[p])]
    /\ UNCHANGED <<reportVars, path, storeVars, now, compVars, leaveVars, attVars, calls>>

\* the session restore finds no session
NoSession(p) ==
    /\ loading[p]
    /\ loading' = [loading EXCEPT ![p] = FALSE]
    /\ view' = [view EXCEPT ![p] = AppContent(user[p], profile[p], FALSE, path[p])]
    /\ UNCHANGED <<reportVars, user, profile, path, storeVars, now, compVars, leaveVars, attVars, calls>>

\* the profile row is fetched again for the signed-in user
LoadProfile(p, ok) ==
    /\ user[p] # None
    /\ profile' = [profile EXCEPT ![p] = getUserProfile(user[p], ok)]
    /\ view' = [view EXCEPT ![p] = AppContent(user[p], profile'[p], loading[p], path[p])]
    /\ UNCHANGED <<reportVars, user, loading, path, storeVars, now, compVars, leaveVars, attVars, calls>>

SignOut(p) ==
    /\ user[p] # None
    /\ user' = [user EXCEPT ![p] = None]
    /\ profile' = [profile EXCEPT ![p] = NoProfile]
    /\ view' = [view EXCEPT ![p] = AppContent(None, NoProfile, loading[p], path[p])]
    /\ UNCHANGED <<reportVars, loading, path, storeVars, now, compVars, leaveVars, attVars, calls>>

\* the user opens a location (link or address bar)
Goto(p, pa) ==
    /\ pa # path[p]
    /\ path' = [path EXCEPT ![p] = pa]
    /\ view' = [view EXCEPT ![p] = AppContent(user[p], profile[p], loading[p], pa)]
    /\ UNCHANGED <<reportVars, authVars, storeVars, now, compVars, leaveVars, attVars, calls>>

\* a rendered <Navigate to=... replace/> changes the location
FollowRedirect(p) ==
    /\ view[p].kind = "Navigate"
    /\ path' = [path EXCEPT ![p] = view[p].to]
    /\ view' = [view EXCEPT ![p] = AppContent(user[p], profile[p], loading[p], view[p].to)]
    /\ UNCHANGED <<reportVars, authVars, storeVars, now, compVars, leaveVars, attVars, calls>>

\* EmployeesPage with its content (not the no-permission message)
OnEmployeesPage(p) ==
    view[p].kind = "page" /\ view[p].page = "EmployeesPage" /\ view[p].body = "content"

\* ------------------------------------------------------------- Numbers
\* The values of JavaScript's number type that the report computes: a
\* non-negative rational num/den in lowest terms, Infinity, or NaN.

RECURSIVE GCD(_, _)
GCD(a, b) == IF b = 0 THEN a ELSE GCD(b, a % b)

Ratio(n, d) ==
    [kind |-> "number", num |-> n \div GCD(n, d), den |-> d \div GCD(n, d)]

Whole(n) == Ratio(n, 1)

NaN == [kind |-> "NaN", num |-> 0, den |-> 1]

Infinity == [kind |-> "Infinity", num |-> 0, den |-> 1]

\* x / y of two numbers: 0 / 0 is NaN, x / 0 is Infinity for x > 0
Div(x, y) ==
    IF x.kind = "NaN" \/ y.kind = "NaN" THEN NaN
    ELSE IF x.kind = "Infinity" THEN IF y.kind = "Infinity" THEN NaN ELSE Infinity
    ELSE IF y.kind = "Infinity" THEN Whole(0)
    ELSE IF y.num = 0 THEN IF x.num = 0 THEN NaN ELSE Infinity
    ELSE Ratio(x.num * y.den, x.den * y.num)

\* x * n for an integer n > 0
Times(x, n) ==
    IF x.kind = "number" THEN Ratio(x.num * n, x.den) ELSE x

\* Math.round: the nearest integer, halves upwards; NaN and Infinity as they are
Round(x) ==
    IF x.kind = "number" THEN Whole((2 * x.num + x.den) \div (2 * x.den)) ELSE x

\* x || 0: NaN and 0 are falsy
OrZero(x) ==
    IF x.kind = "NaN" \/ (x.kind = "number" /\ x.num = 0) THEN Whole(0) ELSE x

\* n || 1 for an integer n
OrOne(n) == IF n = 0 THEN 1 ELSE n

\* ReportsPage's initial stats
NoStats ==
    [totalEmployees |-> 0, presentToday |-> 0, avgHoursPerDay |-> Whole(0),
     totalHoursThisMonth |-> 0]

\* no store result held
NoFrame == [employees |-> 0, todayAttendance |-> <<>>, data |-> {}]

\* every profile active and in no department; no ReportsPage mounted; the
\* EmployeesPage instances have loaded their list
InitNoReports ==
    /\ is_active = [u \in Users |-> TRUE]
    /\ department_id = [u \in Users |-> None]
    /\ stats = [p \in Pages |-> NoStats]
    /\ departmentData = [p \in Pages |-> {}]
    /\ weeklyData = [p \in Pages |-> {}]
    /\ frame = [p \in Pages |-> NoFrame]
    /\ employees = [p \in Pages |-> IF OnEmployeesPage(p) THEN Users ELSE {}]

\* no message shown yet
NoToast == [page |-> None, msg |-> None]

\* a null attendance record (todayAttendance = null)
NoRecord == [id |-> 0, date |-> NullTime, punch_out |-> NullTime]

\* the state shared by every specification before any page acts
InitIdle ==
    /\ leave_requests = <<>>
    /\ attendance = <<>>
    /\ uniqueUserDate = TRUE
    /\ now = 0
    /\ isLoading = [p \in Pages |-> FALSE]
    /\ toast = NoToast
    /\ pc = [p \in Pages |-> "idle"]
    /\ leaveRequests = [p \in Pages |-> <<>>]
    /\ myRequests = [p \in Pages |-> <<>>]
    /\ showForm = [p \in Pages |-> FALSE]
    /\ todayAttendance = [p \in Pages |-> NoRecord]
    /\ fetching = {}
    /\ punchTarget = [p \in Pages |-> 0]
    /\ calls = <<>>
    /\ InitNoReports

InitGuard ==
    /\ user = [p \in Pages |-> None]
    /\ profile = [p \in Pages |-> NoProfile]
    /\ loading = [p \in Pages |-> TRUE]
    /\ path = [p \in Pages |-> "/"]
    /\ view = [p \in Pages |-> AppContent(None, NoProfile, TRUE, "/")]
    /\ profiles \in [Users -> Roles]
    /\ InitIdle

NextGuard ==
    \E p \in Pages :
        \/ \E u \in Users, ok \in BOOLEAN : SignIn(p, u, ok)
        \/ NoSession(p)
        \/ \E ok \in BOOLEAN : LoadProfile(p, ok)
        \/ SignOut(p)
        \/ \E pa \in Paths : Goto(p, pa)
        \/ FollowRedirect(p)

SpecGuard == InitGuard /\ [][NextGuard]_vars

\* --------------------------------------------- role predicate evaluation

RoleArgs == Roles \cup {None}

CallIsAdmin(r) ==
    /\ Len(calls) < MaxCalls
    /\ calls' = Append(calls, [fn |-> "isAdmin", arg |-> r, result |-> isAdmin(r)])
    /\ UNCHANGED <<reportVars, authVars, routeVars, storeVars, now, compVars, leaveVars, attVars>>

CallCanManageEmployees(r) ==
    /\ Len(calls) < MaxCalls
    /\ calls' = Append(calls, [fn |-> "canManageEmployees", arg |-> r,
                               result |-> canManageEmployees(r)])
    /\ UNCHANGED <<reportVars, authVars, routeVars, storeVars, now, compVars, leaveVars, attVars>>

InitRoles ==
    /\ InitGuard
    /\ profiles = [u \in Users |-> "EMPLOYEE"]

NextRoles ==
    \E r \in RoleArgs :
        \/ CallIsAdmin(r)
        \/ CallCanManageEmployees(r)

SpecRoles == InitRoles /\ [][NextRoles]_vars

\* ------------------------------------------------------------- the clock

Tick ==
    /\ now < MaxNow
    /\ now' = now + 1
    /\ UNCHANGED <<reportVars, authVars, routeVars, storeVars, compVars, leaveVars, attVars, calls>>

\* --------------------------------------------------------- Leave Workflow

\* enum leave_type_enum of the store
LeaveTypes == {"SICK", "CASUAL", "ANNUAL", "MATERNITY", "PATERNITY", "EMERGENCY"}

\* values a user can leave or put in the form: "" and 0 are the empty fields
\* formData starts with
LeaveTypeInputs == {"", "SICK"}
DateInputs == 0..MaxDate
ReasonInputs == {"", "flu"}
FormInputs ==
    [leave_type : LeaveTypeInputs, start_date : DateInputs,
     end_date : DateInputs, reason : ReasonInputs]

\* roles the profiles rows take in the leave specification
RoleInputs == {"MANAGER", "EMPLOYEE"}

\* the browser's constraint validation of the form: start_date, end_date and
\* reason are required; end_date has min = start_date. The first invalid
\* control in document order is reported; None when the form is valid.
FormViolation_NoMin(fd) ==
    IF fd.start_date = 0 THEN "valueMissing"
    ELSE IF fd.end_date = 0 THEN "valueMissing"
    ELSE IF fd.reason = "" THEN "valueMissing"
    ELSE None

FormViolation(fd) ==
    IF fd.start_date = 0 THEN "valueMissing"
    ELSE IF fd.end_date = 0 THEN "valueMissing"
    ELSE IF fd.end_date < fd.start_date THEN "rangeUnderflow"
    ELSE IF fd.reason = "" THEN "valueMissing"
    ELSE None

\* .order('created_at', { ascending: false }): newest first
AllDesc ==
    [i \in 1..Len(leave_requests) |->
        LET id == Len(leave_requests) - i + 1
        IN [id |-> id, user_id |-> leave_requests[id].user_id,
            status |-> leave_requests[id].status]]

IsOwn(u, e) == e.user_id = u

\* .eq('user_id', profile.id)
MyDesc(u) == SelectSeq(AllDesc, LAMBDA e : IsOwn(u, e))

OnLeavePage(p) == view[p].kind = "page" /\ view[p].page = "LeavePage"

\* the "All Leave Requests" card with its approve / reject buttons is rendered
DecisionButtons(p, id) ==
    /\ OnLeavePage(p)
    /\ ~showForm[p]
    /\ canManageEmployees(RoleOf(profile[p]))
    /\ ~isLoading[p]
    /\ \E i \in 1..Len(leaveRequests[p]) :
          leaveRequests[p][i].id = id /\ leaveRequests[p][i].status = "PENDING"

\* the "My Leave Requests" card is rendered with the entries of myRequests
MyRequestsShown(p) == OnLeavePage(p) /\ ~showForm[p]

\* the "All Leave Requests" card is rendered with the entries of leaveRequests
AllRequestsShown(p) ==
    /\ OnLeavePage(p)
    /\ ~showForm[p]
    /\ canManageEmployees(RoleOf(profile[p]))
    /\ ~isLoading[p]

\* fetchLeaveRequests up to its first await: the value of pc and isLoading
\* after the call (the call returns at once when profile is null)
FetchPc(p) == IF profile[p] = NoProfile THEN pc[p] ELSE "fetchMy"
FetchLoading(p) == IF profile[p] = NoProfile THEN isLoading[p] ELSE TRUE

\* the response of the own-requests query
FetchMyDone(p, ok) ==
    /\ OnLeavePage(p)
    /\ pc[p] = "fetchMy"
    /\ myRequests' = [myRequests EXCEPT ![p] = IF ok THEN MyDesc(profile[p].id) ELSE @]
    /\ IF canManageEmployees(profile[p].role)
       THEN /\ pc' = [pc EXCEPT ![p] = "fetchAll"]
            /\ UNCHANGED isLoading
       ELSE /\ pc' = [pc EXCEPT ![p] = "idle"]
            /\ isLoading' = [isLoading EXCEPT ![p] = FALSE]
    /\ UNCHANGED <<reportVars, authVars, routeVars, storeVars, now, toast, leaveRequests, showForm,
                   attVars, calls>>

\* the response of the all-requests query
FetchAllDone(p, ok) ==
    /\ OnLeavePage(p)
    /\ pc[p] = "fetchAll"
    /\ leaveRequests' = [leaveRequests EXCEPT ![p] = IF ok THEN AllDesc ELSE @]
    /\ pc' = [pc EXCEPT ![p] = "idle"]
    /\ isLoading' = [isLoading EXCEPT ![p] = FALSE]
    /\ UNCHANGED <<reportVars, authVars, routeVars, storeVars, now, toast, myRequests, showForm,
                   attVars, calls>>

\* the update handleApproveReject sends: .update({status, approved_by,
\* approved_at}).eq('id', requestId)
DecideUpdate_NoFilter(id, status, by) ==
    [i \in 1..Len(leave_requests) |->
        [leave_requests[i] EXCEPT !.status = status, !.approved_by = by,
                                  !.approved_at = now]]

DecideUpdate(id, status, by) ==
    [leave_requests EXCEPT ![id].status = status,
                           ![id].approved_by = by,
                           ![id].approved_at = now]

handleApproveReject(p, id, status, ok) ==
    /\ DecisionButtons(p, id)
    /\ IF ok
       THEN /\ leave_requests' = DecideUpdate(id, status, profile[p].id)
            /\ toast' = [page |-> p, msg |-> "Leave request decided"]
            /\ pc' = [pc EXCEPT ![p] = FetchPc(p)]
            /\ isLoading' = [isLoading EXCEPT ![p] = FetchLoading(p)]
       ELSE /\ toast' = [page |-> p, msg |-> "Failed to update leave request"]
            /\ UNCHANGED <<leave_requests, pc, isLoading>>
    /\ UNCHANGED <<reportVars, is_active, department_id, authVars, routeVars, profiles, attendance, uniqueUserDate, now,
                   leaveVars, attVars, calls>>

OpenForm(p) ==
    /\ OnLeavePage(p)
    /\ ~showForm[p]
    /\ showForm' = [showForm EXCEPT ![p] = TRUE]
    /\ UNCHANGED <<reportVars, authVars, routeVars, storeVars, now, compVars, leaveRequests,
                   myRequests, attVars, calls>>

CancelForm(p) ==
    /\ OnLeavePage(p)
    /\ showForm[p]
    /\ showForm' = [showForm EXCEPT ![p] = FALSE]
    /\ UNCHANGED <<reportVars, authVars, routeVars, storeVars, now, compVars, leaveRequests,
                   myRequests, attVars, calls>>

\* the row LeaveRequestForm.handleSubmit inserts
NewLeaveRequest_SelfApproved(u, fd) ==
    [user_id |-> u, leave_type |-> fd.leave_type, start_date |-> fd.start_date,
     end_date |-> fd.end_date, reason |-> fd.reason, status |-> "PENDING",
     approved_by |-> u, approved_at |-> NullTime]

NewLeaveRequest(u, fd) ==
    [user_id |-> u, leave_type |-> fd.leave_type, start_date |-> fd.start_date,
     end_date |-> fd.end_date, reason |-> fd.reason, status |-> "PENDING",
     approved_by |-> None, approved_at |-> NullTime]

\* handleSubmit reaches its supabase insert: the browser let the submit event
\* through and profile is not null
InsertAttempted(p, fd) == FormViolation(fd) = None /\ profile[p] # NoProfile

\* the Submit Request button: the browser validates the form and, when it is
\* valid, fires onSubmit = handleSubmit
SubmitLeave(p, fd, ok) ==
    /\ OnLeavePage(p)
    /\ showForm[p]
    /\ IF FormViolation(fd) # None
       THEN /\ toast' = [page |-> p, msg |-> FormViolation(fd)]
            /\ UNCHANGED <<leave_requests, showForm, pc, isLoading>>
       ELSE IF profile[p] = NoProfile
       THEN UNCHANGED <<leave_requests, showForm, pc, isLoading, toast>>
       ELSE IF ok /\ fd.leave_type \in LeaveTypes
       THEN /\ leave_requests' = Append(leave_requests, NewLeaveRequest(profile[p].id, fd))
            /\ toast' = [page |-> p, msg |-> "Leave request submitted successfully"]
            /\ showForm' = [showForm EXCEPT ![p] = FALSE]
            /\ pc' = [pc EXCEPT ![p] = FetchPc(p)]
            /\ isLoading' = [isLoading EXCEPT ![p] = FetchLoading(p)]
       ELSE /\ toast' = [page |-> p, msg |-> "Failed to submit leave request"]
            /\ UNCHANGED <<leave_requests, showForm, pc, isLoading>>
    /\ UNCHANGED <<reportVars, is_active, department_id, authVars, routeVars, profiles, attendance, uniqueUserDate, now,
                   leaveRequests, myRequests, attVars, calls>>

\* fetchEmployees is called
CallFetchEmployees(p) ==
    /\ pc' = [pc EXCEPT ![p] = "fetchEmployees"]
    /\ isLoading' = [isLoading EXCEPT ![p] = TRUE]

\* the profiles rows in the store (a deleted row has no role)
ProfileRows == {u \in Users : profiles[u] # None}

\* the answer to fetchEmployees' query
FetchEmployeesDone(p, ok) ==
    /\ OnEmployeesPage(p)
    /\ pc[p] = "fetchEmployees"
    /\ IF ok
       THEN /\ employees' = [employees EXCEPT ![p] = ProfileRows]
            /\ UNCHANGED toast
       ELSE /\ toast' = [page |-> p, msg |-> "Failed to fetch employees"]
            /\ UNCHANGED employees
    /\ pc' = [pc EXCEPT ![p] = "idle"]
    /\ isLoading' = [isLoading EXCEPT ![p] = FALSE]
    /\ UNCHANGED <<authVars, routeVars, storeVars, now, leaveVars, attVars, calls, stats,
                   departmentData, weeklyData, frame>>

\* EmployeeForm.handleSubmit for an existing employee, reached from the
\* employee list of EmployeesPage: .update(updateData).eq('id', employee.id),
\* which changes nothing when the row is gone; onSuccess calls fetchEmployees
EmployeeFormUpdate(p, employee, role, dept, active, ok) ==
    /\ OnEmployeesPage(p)
    /\ IF ok
       THEN /\ IF employee \in ProfileRows
               THEN /\ profiles' = [profiles EXCEPT ![employee] = role]
                    /\ department_id' = [department_id EXCEPT ![employee] = dept]
                    /\ is_active' = [is_active EXCEPT ![employee] = active]
               ELSE UNCHANGED <<profiles, department_id, is_active>>
            /\ toast' = [page |-> p, msg |-> "Employee updated successfully"]
            /\ CallFetchEmployees(p)
       ELSE /\ toast' = [page |-> p, msg |-> "Failed to save employee"]
            /\ UNCHANGED <<profiles, department_id, is_active, pc, isLoading>>
    /\ UNCHANGED <<authVars, routeVars, leave_requests, attendance, uniqueUserDate, now,
                   leaveVars, attVars, calls, reportVars>>

\* handleDeleteEmployee on a row of the list, the confirm() dialog accepted:
\* .delete().eq('id', employeeId), then fetchEmployees
handleDeleteEmployee(p, employeeId, ok) ==
    /\ OnEmployeesPage(p)
    /\ ~isLoading[p]
    /\ employeeId \in employees[p]
    /\ IF ok
       THEN /\ profiles' = [profiles EXCEPT ![employeeId] = None]
            /\ toast' = [page |-> p, msg |-> "Employee deleted successfully"]
            /\ CallFetchEmployees(p)
       ELSE /\ toast' = [page |-> p, msg |-> "Failed to delete employee"]
            /\ UNCHANGED <<profiles, pc, isLoading>>
    /\ UNCHANGED <<authVars, routeVars, department_id, is_active, leave_requests,
                   attendance, uniqueUserDate, now, leaveVars, attVars, calls, reportVars>>

\* the form submitted with the role changed, department and activity as they
\* were loaded
EmployeeFormSubmit(p, employee, role, ok) ==
    EmployeeFormUpdate(p, employee, role, department_id[employee], is_active[employee], ok)

\* two signed-in page instances, each showing LeavePage (just mounted, its
\* useEffect has called fetchLeaveRequests) or EmployeesPage
InitLeave ==
    /\ user = [p \in Pages |-> IF p = "p1" THEN "u1" ELSE "u2"]
    /\ profiles \in [Users -> RoleInputs]
    /\ profile = [p \in Pages |-> getUserProfile(user[p], TRUE)]
    /\ loading = [p \in Pages |-> FALSE]
    /\ path \in [Pages -> {"/leave-requests", "/employees"}]
    /\ view = [p \in Pages |-> AppContent(user[p], profile[p], FALSE, path[p])]
    /\ leave_requests = <<>>
    /\ attendance = <<>>
    /\ uniqueUserDate = TRUE
    /\ now = 0
    /\ isLoading = [p \in Pages |-> path[p] = "/leave-requests"]
    /\ toast = NoToast
    /\ pc = [p \in Pages |-> IF path[p] = "/leave-requests" THEN "fetchMy" ELSE "idle"]
    /\ leaveRequests = [p \in Pages |-> <<>>]
    /\ myRequests = [p \in Pages |-> <<>>]
    /\ showForm = [p \in Pages |-> FALSE]
    /\ todayAttendance = [p \in Pages |-> NoRecord]
    /\ fetching = {}
    /\ punchTarget = [p \in Pages |-> 0]
    /\ calls = <<>>
    /\ InitNoReports

NextLeave ==
    \/ Tick
    \/ \E p \in Pages :
        \/ \E ok \in BOOLEAN : FetchMyDone(p, ok)
        \/ \E ok \in BOOLEAN : FetchAllDone(p, ok)
        \/ \E id \in 1..Len(leave_requests), st \in {"APPROVED", "REJECTED"}, ok \in BOOLEAN :
              handleApproveReject(p, id, st, ok)
        \/ OpenForm(p)
        \/ CancelForm(p)
        \/ \E fd \in FormInputs, ok \in BOOLEAN :
              Len(leave_requests) < MaxLeave /\ SubmitLeave(p, fd, ok)
        \/ \E e \in Users, r \in RoleInputs, ok \in BOOLEAN : EmployeeFormSubmit(p, e, r, ok)
        \/ \E ok \in BOOLEAN : FetchEmployeesDone(p, ok)

SpecLeave == InitLeave /\ [][NextLeave]_vars

\* two signed-in page instances that requested /employees, the profile of
\* each loaded or null; an EmployeesPage that passes its permission check has
\* called fetchEmployees
InitEmployees ==
    /\ user = [p \in Pages |-> IF p = "p1" THEN "u1" ELSE "u2"]
    /\ profiles \in [Users -> {"MANAGER", "DIRECTOR", "EMPLOYEE"}]
    /\ profile \in {f \in [Pages -> {getUserProfile(u, ok) : u \in Users, ok \in BOOLEAN}] :
                       \A p \in Pages : f[p] # NoProfile => f[p].id = user[p]}
    /\ loading = [p \in Pages |-> FALSE]
    /\ path = [p \in Pages |-> "/employees"]
    /\ view = [p \in Pages |-> AppContent(user[p], profile[p], FALSE, path[p])]
    /\ leave_requests = <<>>
    /\ attendance = <<>>
    /\ uniqueUserDate = TRUE
    /\ now = 0
    /\ isLoading = [p \in Pages |-> TRUE]
    /\ toast = NoToast
    /\ pc = [p \in Pages |-> IF OnEmployeesPage(p) THEN "fetchEmployees" ELSE "idle"]
    /\ leaveRequests = [p \in Pages |-> <<>>]
    /\ myRequests = [p \in Pages |-> <<>>]
    /\ showForm = [p \in Pages |-> FALSE]
    /\ todayAttendance = [p \in Pages |-> NoRecord]
    /\ fetching = {}
    /\ punchTarget = [p \in Pages |-> 0]
    /\ calls = <<>>
    /\ is_active = [u \in Users |-> TRUE]
    /\ department_id = [u \in Users |-> None]
    /\ stats = [p \in Pages |-> NoStats]
    /\ departmentData = [p \in Pages |-> {}]
    /\ weeklyData = [p \in Pages |-> {}]
    /\ frame = [p \in Pages |-> NoFrame]
    /\ employees = [p \in Pages |-> {}]

NextEmployees ==
    \E p \in Pages :
        \/ \E ok \in BOOLEAN : FetchEmployeesDone(p, ok)
        \/ \E e \in Users, r \in RoleInputs, ok \in BOOLEAN : EmployeeFormSubmit(p, e, r, ok)
        \/ \E e \in Users, ok \in BOOLEAN : handleDeleteEmployee(p, e, ok)

SpecEmployees == InitEmployees /\ [][NextEmployees]_vars

\* the user follows a sidebar link between the leave page and the employee
\* page: the page shown is unmounted (its state and the continuations of its
\* requests in flight are dropped) and the new one is mounted; a mounted
\* LeavePage starts with isLoading = true and its useEffect calls
\* fetchLeaveRequests; so does EmployeesPage with fetchEmployees
OpenPage(p, pa) ==
    /\ pa \in {"/leave-requests", "/employees"}
    /\ pa # path[p]
    /\ path' = [path EXCEPT ![p] = pa]
    /\ view' = [view EXCEPT ![p] = AppContent(user[p], profile[p], loading[p], pa)]
    /\ leaveRequests' = [leaveRequests EXCEPT ![p] = <<>>]
    /\ myRequests' = [myRequests EXCEPT ![p] = <<>>]
    /\ showForm' = [showForm EXCEPT ![p] = FALSE]
    /\ employees' = [employees EXCEPT ![p] = {}]
    /\ isLoading' = [isLoading EXCEPT ![p] = TRUE]
    /\ pc' = [pc EXCEPT ![p] =
                 IF pa = "/leave-requests"
                 THEN IF profile[p] # NoProfile THEN "fetchMy" ELSE "idle"
                 ELSE IF canManageEmployees(RoleOf(profile[p]))
                      THEN "fetchEmployees" ELSE "idle"]
    /\ UNCHANGED <<authVars, storeVars, now, toast, attVars, calls, stats, departmentData,
                   weeklyData, frame>>

\* the leave workflow with navigation between the two pages
NextLeaveNav ==
    \E p \in Pages :
        \/ \E ok \in BOOLEAN : FetchMyDone(p, ok)
        \/ \E ok \in BOOLEAN : FetchAllDone(p, ok)
        \/ OpenForm(p)
        \/ \E fd \in FormInputs, ok \in BOOLEAN :
              Len(leave_requests) < MaxLeave /\ SubmitLeave(p, fd, ok)
        \/ \E e \in Users, r \in RoleInputs, ok \in BOOLEAN : EmployeeFormSubmit(p, e, r, ok)
        \/ \E ok \in BOOLEAN : FetchEmployeesDone(p, ok)
        \/ \E pa \in Paths : OpenPage(p, pa)

\* two managers, one on the employee page and one on the leave page
InitLeaveNav ==
    /\ InitLeave
    /\ profiles = [u \in Users |-> "MANAGER"]
    /\ path = [p \in Pages |-> IF p = "p1" THEN "/employees" ELSE "/leave-requests"]

SpecLeaveNav == InitLeaveNav /\ [][NextLeaveNav]_vars

\* the leave page alone: a manager and an employee, both on LeavePage, with
\* the roles and the clock fixed
InitLeavePage ==
    /\ InitLeave
    /\ profiles = [u \in Users |-> IF u = "u1" THEN "MANAGER" ELSE "EMPLOYEE"]
    /\ path = [p \in Pages |-> "/leave-requests"]

NextLeavePage ==
    \E p \in Pages :
        \/ \E ok \in BOOLEAN : FetchMyDone(p, ok)
        \/ \E ok \in BOOLEAN : FetchAllDone(p, ok)
        \/ \E id \in 1..Len(leave_requests), st \in {"APPROVED", "REJECTED"}, ok \in BOOLEAN :
              handleApproveReject(p, id, st, ok)
        \/ OpenForm(p)
        \/ CancelForm(p)
        \/ \E fd \in FormInputs, ok \in BOOLEAN :
              Len(leave_requests) < MaxRequests /\ SubmitLeave(p, fd, ok)

SpecLeavePage == InitLeavePage /\ [][NextLeavePage]_vars

\* ------------------------------------------------- leave duration display

\* a calendar date as the value of an <input type="date"> or of a date
\* column: "YYYY-MM-DD"; EmptyDate is the empty string
EmptyDate == [y |-> 0, m |-> 0, d |-> 0]

IsLeap(y) == (y % 4 = 0 /\ y % 100 # 0) \/ y % 400 = 0

DaysInMonth(y, m) ==
    CASE m \in {4, 6, 9, 11} -> 30
      [] m = 2 -> IF IsLeap(y) THEN 29 ELSE 28
      [] OTHER -> 31

\* the leap years before year y
LeapsBefore(y) == ((y - 1) \div 4) - ((y - 1) \div 100) + ((y - 1) \div 400)

RECURSIVE DaysBeforeMonth(_, _)
DaysBeforeMonth(y, m) ==
    IF m = 1 THEN 0 ELSE DaysBeforeMonth(y, m - 1) + DaysInMonth(y, m - 1)

\* (1000 * 60 * 60 * 24) milliseconds, in seconds: times are counted in
\* seconds here, every millisecond value of the code being 1000 times the
\* value of the model (a date-only string has no fraction of a second)
MsPerDay == 60 * 60 * 24

\* new Date("YYYY-MM-DD").getTime(): a date-only string is parsed as midnight
\* UTC; the time since 1970-01-01
getTime(date) ==
    (365 * (date.y - 1970) + LeapsBefore(date.y) - LeapsBefore(1970)
        + DaysBeforeMonth(date.y, date.m) + date.d - 1) * MsPerDay

Abs(x) == IF x < 0 THEN -x ELSE x

\* Math.ceil(a / b) for a >= 0, b > 0
Ceil(a, b) == (a + b - 1) \div b

calculateDays_Exclusive(startDate, endDate) ==
    LET start == getTime(startDate)
        end == getTime(endDate)
        diffTime == Abs(end - start)
        diffDays == Ceil(diffTime, MsPerDay)
    IN diffDays

\* LeavePage.calculateDays
calculateDays(startDate, endDate) ==
    LET start == getTime(startDate)
        end == getTime(endDate)
        diffTime == Abs(end - start)
        diffDays == Ceil(diffTime, MsPerDay) + 1
    IN diffDays

\* LeaveRequestForm.calculateDays, on formData.start_date and formData.end_date
FormCalculateDays(start_date, end_date) ==
    IF start_date # EmptyDate /\ end_date # EmptyDate
    THEN LET start == getTime(start_date)
             end == getTime(end_date)
             diffTime == Abs(end - start)
             diffDays == Ceil(diffTime, MsPerDay) + 1
         IN diffDays
    ELSE 0

\* the day after a calendar date
NextDay(date) ==
    IF date.d < DaysInMonth(date.y, date.m) THEN [date EXCEPT !.d = @ + 1]
    ELSE IF date.m < 12 THEN [y |-> date.y, m |-> date.m + 1, d |-> 1]
    ELSE [y |-> date.y + 1, m |-> 1, d |-> 1]

RECURSIVE AddDays(_, _)
AddDays(date, k) == IF k = 0 THEN date ELSE AddDays(NextDay(date), k - 1)

\* the dates the duration is evaluated on: the days at and after a year start,
\* a leap day, a month end, a year end and a non-leap February
Anchors ==
    {[y |-> 2024, m |-> 1, d |-> 1], [y |-> 2024, m |-> 2, d |-> 28],
     [y |-> 2024, m |-> 3, d |-> 1], [y |-> 2024, m |-> 12, d |-> 30],
     [y |-> 2023, m |-> 2, d |-> 27]}

CalendarDates == {AddDays(a, k) : a \in Anchors, k \in 0..MaxSpan}

\* a request card of LeavePage renders calculateDays(start_date, end_date)
RenderRequestDays(startDate, endDate) ==
    /\ calls' = <<[fn |-> "LeavePage.calculateDays", arg |-> <<startDate, endDate>>,
                   result |-> calculateDays(startDate, endDate)]>>
    /\ UNCHANGED <<reportVars, authVars, routeVars, storeVars, now, compVars, leaveVars, attVars>>

\* the Duration field of LeaveRequestForm renders calculateDays()
RenderFormDays(start_date, end_date) ==
    /\ calls' = <<[fn |-> "LeaveRequestForm.calculateDays", arg |-> <<start_date, end_date>>,
                   result |-> FormCalculateDays(start_date, end_date)]>>
    /\ UNCHANGED <<reportVars, authVars, routeVars, storeVars, now, compVars, leaveVars, attVars>>

InitDays == InitLeavePage

NextDays ==
    \/ \E s \in CalendarDates, e \in CalendarDates : RenderRequestDays(s, e)
    \/ \E s \in CalendarDates \cup {EmptyDate}, e \in CalendarDates \cup {EmptyDate} :
          RenderFormDays(s, e)

SpecDays == InitDays /\ [][NextDays]_vars

\* ------------------------------------------------------ Attendance Engine

\* new Date().toISOString().split('T')[0]
Today == now \div TicksPerDay

\* what getCurrentLocation resolves to: coordinates, or one of its two
\* fallback strings
Locations == {"12.9, 77.5", "Location not available", "Geolocation not supported"}

OnAttendancePage(p) == view[p].kind = "page" /\ view[p].page = "AttendancePage"

\* the attendance rows of a user for a date
RowsOf(u, d) ==
    {i \in 1..Len(attendance) : attendance[i].user_id = u /\ attendance[i].date = d}

\* the page's copy of a row
Copy(i) == [id |-> i, date |-> attendance[i].date, punch_out |-> attendance[i].punch_out]

\* .eq('user_id', ..).eq('date', today).single(): the row when exactly one
\* matches; otherwise error PGRST116 with data = null
Single(u, d) ==
    IF Cardinality(RowsOf(u, d)) = 1
    THEN Copy(CHOOSE i \in RowsOf(u, d) : TRUE)
    ELSE NoRecord

\* the response of fetchTodayAttendance's query: any error other than PGRST116
\* leaves todayAttendance as it is
FetchTodayDone(p, ok) ==
    /\ OnAttendancePage(p)
    /\ p \in fetching
    /\ fetching' = fetching \ {p}
    /\ todayAttendance' =
          [todayAttendance EXCEPT ![p] = IF ok THEN Single(profile[p].id, Today) ELSE @]
    /\ UNCHANGED <<reportVars, authVars, routeVars, storeVars, now, compVars, toast, leaveVars,
                   punchTarget, calls>>

\* the Punch In button (rendered while todayAttendance is null): handlePunchIn
\* up to await getCurrentLocation()
handlePunchIn(p) ==
    /\ OnAttendancePage(p)
    /\ todayAttendance[p] = NoRecord
    /\ ~isLoading[p]
    /\ profile[p] # NoProfile
    /\ isLoading' = [isLoading EXCEPT ![p] = TRUE]
    /\ pc' = [pc EXCEPT ![p] = "punchIn"]
    /\ UNCHANGED <<reportVars, authVars, routeVars, storeVars, now, toast, leaveVars, attVars, calls>>

\* null in the total_hours column
NoHours == NullTime

\* the length of one step of the clock, in hours
HoursPerTick == 24 \div TicksPerDay

\* total_hours as the store derives it: (punch_out - punch_in) in hours once
\* both are set
TotalHours(row) ==
    IF row.punch_in # NullTime /\ row.punch_out # NullTime
    THEN (row.punch_out - row.punch_in) * HoursPerTick
    ELSE NoHours

\* the store's derivation of total_hours, applied to the rows it writes
StoreDerive(rows) ==
    [i \in 1..Len(rows) |-> [rows[i] EXCEPT !.total_hours = TotalHours(rows[i])]]

NewAttendance_NoLocation(u, location) ==
    [user_id |-> u, date |-> Today, punch_in |-> now, punch_out |-> NullTime,
     location_in |-> None, location_out |-> None, status |-> "PRESENT",
     total_hours |-> NoHours]

\* the row handlePunchIn inserts (punch_out, location_out and total_hours
\* are not given and take the columns' default, null)
NewAttendance(u, location) ==
    [user_id |-> u, date |-> Today, punch_in |-> now, punch_out |-> NullTime,
     location_in |-> location, location_out |-> None, status |-> "PRESENT",
     total_hours |-> NoHours]

\* the error of the insert: a store failure, a violated uniqueness constraint
\* on (user_id, date) when the store has one, or none
InsertError(u, ok) ==
    IF ~ok THEN "store"
    ELSE IF uniqueUserDate /\ RowsOf(u, Today) # {} THEN "duplicate"
    ELSE None

\* the toast handlePunchIn shows for the insert's error
PunchInToast(error) ==
    IF error # None THEN "Failed to punch in. Please try again." ELSE "Punched In!"

\* handlePunchIn from the resolution of getCurrentLocation to its end
PunchInInsert(p, location, ok) ==
    /\ OnAttendancePage(p)
    /\ pc[p] = "punchIn"
    /\ Len(attendance) < MaxAttendance
    /\ LET error == InsertError(profile[p].id, ok) IN
        /\ toast' = [page |-> p, msg |-> PunchInToast(error)]
        /\ IF error = None
           THEN /\ attendance' = Append(attendance, NewAttendance(profile[p].id, location))
                /\ fetching' = fetching \cup {p}
           ELSE UNCHANGED <<attendance, fetching>>
    /\ isLoading' = [isLoading EXCEPT ![p] = FALSE]
    /\ pc' = [pc EXCEPT ![p] = "idle"]
    /\ UNCHANGED <<reportVars, is_active, department_id, authVars, routeVars, profiles, leave_requests, uniqueUserDate, now,
                   leaveVars, todayAttendance, punchTarget, calls>>

\* the Punch Out button (rendered while todayAttendance has no punch_out):
\* handlePunchOut up to await getCurrentLocation()
handlePunchOut(p) ==
    /\ OnAttendancePage(p)
    /\ todayAttendance[p] # NoRecord
    /\ todayAttendance[p].punch_out = NullTime
    /\ ~isLoading[p]
    /\ profile[p] # NoProfile
    /\ isLoading' = [isLoading EXCEPT ![p] = TRUE]
    /\ pc' = [pc EXCEPT ![p] = "punchOut"]
    /\ punchTarget' = [punchTarget EXCEPT ![p] = todayAttendance[p].id]
    /\ UNCHANGED <<reportVars, authVars, routeVars, storeVars, now, toast, leaveVars,
                   todayAttendance, fetching, calls>>

PunchOutUpdate_Midnight(id, location) ==
    [attendance EXCEPT ![id].punch_out = Today * TicksPerDay, ![id].location_out = location]

PunchOutUpdate_Recompute(id, location) ==
    [attendance EXCEPT ![id].punch_out = now, ![id].location_out = location,
                       ![id].status = IF now - attendance[id].punch_in < 1
                                        THEN "HALF_DAY" ELSE "PRESENT"]

\* the update handlePunchOut sends: .update({punch_out, location_out}).eq('id', id)
PunchOutUpdate(id, location) ==
    [attendance EXCEPT ![id].punch_out = now, ![id].location_out = location]

\* handlePunchOut from the resolution of getCurrentLocation to its end
PunchOutDone(p, location, ok) ==
    /\ OnAttendancePage(p)
    /\ pc[p] = "punchOut"
    /\ IF ok
       THEN /\ attendance' = StoreDerive(PunchOutUpdate(punchTarget[p], location))
            /\ toast' = [page |-> p, msg |-> "Punched Out!"]
            /\ fetching' = fetching \cup {p}
       ELSE /\ toast' = [page |-> p, msg |-> "Failed to punch out. Please try again."]
            /\ UNCHANGED <<attendance, fetching>>
    /\ isLoading' = [isLoading EXCEPT ![p] = FALSE]
    /\ pc' = [pc EXCEPT ![p] = "idle"]
    /\ UNCHANGED <<reportVars, is_active, department_id, authVars, routeVars, profiles, leave_requests, uniqueUserDate, now,
                   leaveVars, todayAttendance, punchTarget, calls>>

\* signed-in page instances showing AttendancePage, just mounted: its
\* useEffect has called fetchTodayAttendance
InitAttendance ==
    /\ user \in {f \in [Pages -> Users] : f["p1"] = "u1"}
    /\ profiles = [u \in Users |-> "EMPLOYEE"]
    /\ profile = [p \in Pages |-> getUserProfile(user[p], TRUE)]
    /\ loading = [p \in Pages |-> FALSE]
    /\ path = [p \in Pages |-> "/attendance"]
    /\ view = [p \in Pages |-> AppContent(user[p], profile[p], FALSE, path[p])]
    /\ leave_requests = <<>>
    /\ attendance = <<>>
    /\ uniqueUserDate \in BOOLEAN
    /\ now = 0
    /\ isLoading = [p \in Pages |-> FALSE]
    /\ toast = NoToast
    /\ pc = [p \in Pages |-> "idle"]
    /\ leaveRequests = [p \in Pages |-> <<>>]
    /\ myRequests = [p \in Pages |-> <<>>]
    /\ showForm = [p \in Pages |-> FALSE]
    /\ todayAttendance = [p \in Pages |-> NoRecord]
    /\ fetching = Pages
    /\ punchTarget = [p \in Pages |-> 0]
    /\ calls = <<>>
    /\ InitNoReports

NextAttendance ==
    \/ Tick
    \/ \E p \in Pages :
        \/ \E ok \in BOOLEAN : FetchTodayDone(p, ok)
        \/ handlePunchIn(p)
        \/ \E l \in Locations, ok \in BOOLEAN : PunchInInsert(p, l, ok)
        \/ handlePunchOut(p)
        \/ \E l \in Locations, ok \in BOOLEAN : PunchOutDone(p, l, ok)

SpecAttendance == InitAttendance /\ [][NextAttendance]_vars

\* getCurrentPosition is called without options, so without a timeout: when
\* the capability delivers neither callback (the permission prompt is left
\* unanswered), the promise of getCurrentLocation stays pending
GeoNoCallback(p) ==
    /\ OnAttendancePage(p)
    /\ pc[p] \in {"punchIn", "punchOut"}
    /\ pc' = [pc EXCEPT ![p] = "noCallback"]
    /\ UNCHANGED <<reportVars, authVars, routeVars, storeVars, now, isLoading, toast, leaveVars,
                   attVars, calls>>

\* one user with the attendance page open; every step that can be taken is
\* taken eventually (the event loop runs every ready continuation, and the
\* capability and the store deliver what they were left to deliver)
InitPunch ==
    /\ InitAttendance
    /\ user = [p \in Pages |-> "u1"]
    /\ uniqueUserDate

NextPunch ==
    \/ Tick
    \/ \E ok \in BOOLEAN : FetchTodayDone("p1", ok)
    \/ handlePunchIn("p1")
    \/ \E l \in Locations, ok \in BOOLEAN : PunchInInsert("p1", l, ok)
    \/ handlePunchOut("p1")
    \/ \E l \in Locations, ok \in BOOLEAN : PunchOutDone("p1", l, ok)
    \/ GeoNoCallback("p1")

SpecPunch == InitPunch /\ [][NextPunch]_vars /\ WF_vars(NextPunch)

\* the days the clock of SpecMidnight can pass
MaxDay == 1

\* the date changes: the clock reaches the start of the next day
DateChange ==
    /\ Today < MaxDay
    /\ now' = (Today + 1) * TicksPerDay
    /\ UNCHANGED <<authVars, routeVars, storeVars, compVars, leaveVars, attVars, calls,
                   reportVars>>

\* one page instance of u1 that stays open across a change of date
NextMidnight ==
    \/ DateChange
    \/ \E ok \in BOOLEAN : FetchTodayDone("p1", ok)
    \/ handlePunchIn("p1")
    \/ \E l \in Locations, ok \in BOOLEAN : PunchInInsert("p1", l, ok)
    \/ handlePunchOut("p1")
    \/ \E l \in Locations, ok \in BOOLEAN : PunchOutDone("p1", l, ok)

SpecMidnight == InitPunch /\ [][NextMidnight]_vars

\* ------------------------------------------------------------ Reporting

\* departments.id of the store's departments
Depts == {"d1", "d2"}

OnReportsPage(p) ==
    view[p].kind = "page" /\ view[p].page = "ReportsPage" /\ view[p].body = "content"

\* emp.departments?.name || 'No Department'
DeptName(u) == IF department_id[u] = None THEN "No Department" ELSE department_id[u]

\* record.total_hours || 0
HoursOrZero(h) == IF h = NoHours THEN 0 ELSE h

\* reduce((sum, record) => sum + (record.total_hours || 0), 0)
RECURSIVE SumHours(_)
SumHours(rows) ==
    IF rows = <<>> THEN 0 ELSE HoursOrZero(Head(rows).total_hours) + SumHours(Tail(rows))

\* the first day of the current month; the days of the model lie in one month
StartOfMonth == 0

\* parseInt(selectedPeriod): the shortest period covers the days of the model
ReportDays == 7

\* .eq('is_active', true) on profiles
ActiveEmployees == {u \in Users : is_active[u]}

\* .eq('date', today).eq('status', 'PRESENT') on attendance
PresentToday ==
    SelectSeq(attendance, LAMBDA r : r.date = Today /\ r.status = "PRESENT")

\* .gte('date', startOfMonth) on attendance
MonthlyAttendance == SelectSeq(attendance, LAMBDA r : r.date >= StartOfMonth)

\* avgHoursPerDay of fetchAttendanceStats
AvgHoursPerDay_NoGuard(rows) ==
    Div(Whole(SumHours(rows)), Whole(Len(rows)))

AvgHoursPerDay(rows) ==
    OrZero(Div(Whole(SumHours(rows)), Whole(OrOne(Len(rows)))))

\* the percentage of the Present Today card
PresentTodayPercent(st) ==
    Round(Times(Div(Whole(st.presentToday), Whole(st.totalEmployees)), 100))

\* catch of fetchAttendanceStats: console.error, then setIsLoading(false)
StatsCaught(p) ==
    /\ pc' = [pc EXCEPT ![p] = "idle"]
    /\ isLoading' = [isLoading EXCEPT ![p] = FALSE]
    /\ UNCHANGED <<stats, frame>>

\* the answer to the read of the active profiles
FetchEmployeesCount(p, ok) ==
    /\ OnReportsPage(p)
    /\ pc[p] = "employees"
    /\ IF ok
       THEN /\ frame' = [frame EXCEPT ![p].employees = Cardinality(ActiveEmployees)]
            /\ pc' = [pc EXCEPT ![p] = "today"]
            /\ UNCHANGED <<stats, isLoading>>
       ELSE StatsCaught(p)
    /\ UNCHANGED <<authVars, routeVars, storeVars, now, toast, leaveVars, attVars, calls, employees,
                   departmentData, weeklyData>>

\* the answer to the read of today's PRESENT records
FetchPresentToday(p, ok) ==
    /\ OnReportsPage(p)
    /\ pc[p] = "today"
    /\ IF ok
       THEN /\ frame' = [frame EXCEPT ![p].todayAttendance = PresentToday]
            /\ pc' = [pc EXCEPT ![p] = "monthly"]
            /\ UNCHANGED <<stats, isLoading>>
       ELSE StatsCaught(p)
    /\ UNCHANGED <<authVars, routeVars, storeVars, now, toast, leaveVars, attVars, calls, employees,
                   departmentData, weeklyData>>

\* the answer to the read of the month's records, and setStats
FetchMonthly(p, ok) ==
    /\ OnReportsPage(p)
    /\ pc[p] = "monthly"
    /\ IF ok
       THEN /\ stats' = [stats EXCEPT ![p] =
                  [totalEmployees |-> frame[p].employees,
                   presentToday |-> Len(frame[p].todayAttendance),
                   avgHoursPerDay |-> AvgHoursPerDay(frame[p].todayAttendance),
                   totalHoursThisMonth |-> SumHours(MonthlyAttendance)]]
            /\ pc' = [pc EXCEPT ![p] = "deptPresent"]
            /\ UNCHANGED <<frame, isLoading>>
       ELSE StatsCaught(p)
    /\ UNCHANGED <<authVars, routeVars, storeVars, now, toast, leaveVars, attVars, calls, employees,
                   departmentData, weeklyData>>

\* the active profiles that have an attendance row for today (attendance!inner)
JoinedToday == {u \in ActiveEmployees : RowsOf(u, Today) # {}}

\* the results the first read of fetchDepartmentAttendance can have: each
\* joined profile with its department and the status of the first of its rows
\* for today, in an order the query does not fix
DeptReads ==
    {{[id |-> u, department |-> DeptName(u), status |-> attendance[f[u]].status] :
         u \in JoinedToday} :
       f \in {g \in [JoinedToday -> 1..Len(attendance)] :
                 \A u \in JoinedToday : g[u] \in RowsOf(u, Today)}}

\* the answer to fetchDepartmentAttendance's first read; an error is thrown
\* to the function's own catch, and fetchAttendanceStats goes on
FetchDeptPresent(p, ok) ==
    /\ OnReportsPage(p)
    /\ pc[p] = "deptPresent"
    /\ IF ok
       THEN /\ \E data \in DeptReads : frame' = [frame EXCEPT ![p].data = data]
            /\ pc' = [pc EXCEPT ![p] = "deptAll"]
       ELSE /\ pc' = [pc EXCEPT ![p] = "weekly"]
            /\ UNCHANGED frame
    /\ UNCHANGED <<authVars, routeVars, storeVars, now, isLoading, toast, leaveVars,
                   attVars, calls, employees, stats, departmentData, weeklyData>>

\* allEmployees; its error is not read, data is null and nothing is counted
AllEmployees(ok) ==
    IF ok THEN {[id |-> u, department |-> DeptName(u)] : u \in ActiveEmployees} ELSE {}

\* departmentStats[deptName].present++ on a department that has no entry
PresentWithoutEntry(all, data) ==
    \E e \in data : /\ e.status = "PRESENT"
                    /\ e.department \notin {a.department : a \in all}

Percentage(present, total) ==
    Round(Times(Div(Whole(present), Whole(total)), 100))

\* deptData: one entry for each department of allEmployees
DepartmentStats_FromBothReads(all, data) ==
    {[department |-> d,
      present |-> Cardinality({e \in data : e.department = d /\ e.status = "PRESENT"}),
      total |-> Cardinality({a \in all : a.department = d}),
      percentage |-> Percentage(
          Cardinality({e \in data : e.department = d /\ e.status = "PRESENT"}),
          Cardinality({a \in all : a.department = d}))] :
       d \in {a.department : a \in all} \cup {e.department : e \in data}}

DepartmentStats(all, data) ==
    {[department |-> d,
      present |-> Cardinality({e \in data : e.department = d /\ e.status = "PRESENT"}),
      total |-> Cardinality({a \in all : a.department = d}),
      percentage |-> Percentage(
          Cardinality({e \in data : e.department = d /\ e.status = "PRESENT"}),
          Cardinality({a \in all : a.department = d}))] :
       d \in {a.department : a \in all}}

\* the answer to fetchDepartmentAttendance's second read, the counting and
\* setDepartmentData; the TypeError of a present employee whose department has
\* no entry is caught by the function's catch
FetchDeptAll(p, ok) ==
    /\ OnReportsPage(p)
    /\ pc[p] = "deptAll"
    /\ departmentData' =
          IF PresentWithoutEntry(AllEmployees(ok), frame[p].data)
          THEN departmentData
          ELSE [departmentData EXCEPT ![p] = DepartmentStats(AllEmployees(ok), frame[p].data)]
    /\ pc' = [pc EXCEPT ![p] = "weekly"]
    /\ UNCHANGED <<authVars, routeVars, storeVars, now, isLoading, toast, leaveVars,
                   attVars, calls, employees, stats, weeklyData, frame>>

\* .gte('date', startDate).lte('date', endDate) on attendance
InPeriod(r) == r.date >= Today - ReportDays /\ r.date <= Today

\* avgHours of a day's entry in chartData
AvgHours(present, totalHours) ==
    OrZero(Div(Round(Times(Div(Whole(totalHours), Whole(present)), 10)), Whole(10)))

\* the PRESENT records of a day among the records read
PresentOn(rows, d) == SelectSeq(rows, LAMBDA r : r.date = d /\ r.status = "PRESENT")

\* chartData: one entry for each date that has a record in the period
ChartData(rows) ==
    {[date |-> d,
      present |-> Len(PresentOn(rows, d)),
      avgHours |-> AvgHours(Len(PresentOn(rows, d)), SumHours(PresentOn(rows, d)))] :
       d \in {rows[i].date : i \in 1..Len(rows)}}

\* the answer to fetchWeeklyAttendance's read and setWeeklyData; then
\* fetchAttendanceStats ends with setIsLoading(false)
FetchWeekly(p, ok) ==
    /\ OnReportsPage(p)
    /\ pc[p] = "weekly"
    /\ weeklyData' =
          IF ok THEN [weeklyData EXCEPT ![p] = ChartData(SelectSeq(attendance, InPeriod))]
          ELSE weeklyData
    /\ pc' = [pc EXCEPT ![p] = "idle"]
    /\ isLoading' = [isLoading EXCEPT ![p] = FALSE]
    /\ UNCHANGED <<authVars, routeVars, storeVars, now, toast, leaveVars, attVars, calls, employees,
                   stats, departmentData, frame>>

\* the hours a record can hold: none, or whole hours (the store derives them
\* from times finer than a tick of the model's clock)
HoursInputs == {NoHours, 1, 2}

MaxRows == 3

\* the records of SpecReportDept's attendance table
MaxPresent == 2

\* attendance tables of up to MaxRows records of the last two days, dates in
\* the order of insertion
ReportRows ==
    [user_id : Users, date : {Today - 1, Today}, punch_in : {NullTime},
     punch_out : {NullTime}, location_in : {None}, location_out : {None},
     status : {"PRESENT", "ABSENT"}, total_hours : HoursInputs]

ReportTables ==
    UNION {{t \in [1..n -> ReportRows] : \A i \in 1..n, j \in 1..n :
                                            i < j => t[i].date <= t[j].date} :
             n \in 0..MaxRows}

\* u1, a manager, has just opened ReportsPage (its useEffect has called
\* fetchAttendanceStats); u2, a manager, is on EmployeesPage
InitReportsPages ==
    /\ user = [p \in Pages |-> IF p = "p1" THEN "u1" ELSE "u2"]
    /\ profiles = [u \in Users |-> "MANAGER"]
    /\ profile = [p \in Pages |-> getUserProfile(user[p], TRUE)]
    /\ loading = [p \in Pages |-> FALSE]
    /\ path = [p \in Pages |-> IF p = "p1" THEN "/reports" ELSE "/employees"]
    /\ view = [p \in Pages |-> AppContent(user[p], profile[p], FALSE, path[p])]
    /\ leave_requests = <<>>
    /\ uniqueUserDate = FALSE
    /\ now = TicksPerDay
    /\ isLoading = [p \in Pages |-> p = "p1"]
    /\ toast = NoToast
    /\ pc = [p \in Pages |-> IF p = "p1" THEN "employees" ELSE "idle"]
    /\ leaveRequests = [p \in Pages |-> <<>>]
    /\ myRequests = [p \in Pages |-> <<>>]
    /\ showForm = [p \in Pages |-> FALSE]
    /\ todayAttendance = [p \in Pages |-> NoRecord]
    /\ fetching = {}
    /\ punchTarget = [p \in Pages |-> 0]
    /\ calls = <<>>
    /\ stats = [p \in Pages |-> NoStats]
    /\ departmentData = [p \in Pages |-> {}]
    /\ weeklyData = [p \in Pages |-> {}]
    /\ frame = [p \in Pages |-> NoFrame]
    /\ employees = [p \in Pages |-> IF p = "p2" THEN Users ELSE {}]

\* the statistics over every small attendance table
InitReports ==
    /\ InitReportsPages
    /\ attendance \in ReportTables
    /\ is_active \in [Users -> BOOLEAN]
    /\ department_id = [u \in Users |-> None]

NextReports ==
    \E p \in Pages :
        \/ \E ok \in BOOLEAN : FetchEmployeesCount(p, ok)
        \/ \E ok \in BOOLEAN : FetchPresentToday(p, ok)
        \/ \E ok \in BOOLEAN : FetchMonthly(p, ok)
        \/ \E ok \in BOOLEAN : FetchDeptPresent(p, ok)
        \/ \E ok \in BOOLEAN : FetchDeptAll(p, ok)
        \/ \E ok \in BOOLEAN : FetchWeekly(p, ok)

SpecReports == InitReports /\ [][NextReports]_vars

\* the department statistics over today's records; u2 activates, deactivates
\* and moves employees while fetchDepartmentAttendance of u1's page is about
\* to make its first or its second read
InitReportDept ==
    /\ InitReportsPages
    /\ attendance \in {t \in ReportTables :
                          /\ Len(t) <= MaxPresent
                          /\ \A i \in 1..Len(t) : /\ t[i].date = Today
                                                   /\ t[i].total_hours = NoHours}
    /\ is_active = [u \in Users |-> TRUE]
    /\ department_id \in [Users -> {None, "d1"}]

NextReportDept ==
    \E p \in Pages :
        \/ \E ok \in BOOLEAN : FetchEmployeesCount(p, ok)
        \/ \E ok \in BOOLEAN : FetchPresentToday(p, ok)
        \/ \E ok \in BOOLEAN : FetchMonthly(p, ok)
        \/ \E ok \in BOOLEAN : FetchDeptPresent(p, ok)
        \/ \E ok \in BOOLEAN : FetchDeptAll(p, ok)
        \/ \E ok \in BOOLEAN : FetchWeekly(p, ok)
        \/ \E e \in Users, d \in Depts \cup {None}, a \in BOOLEAN :
              /\ pc["p1"] \in {"deptPresent", "deptAll"}
              /\ EmployeeFormUpdate(p, e, profiles[e], d, a, TRUE)
        \/ \E ok \in BOOLEAN : FetchEmployeesDone(p, ok)

SpecReportDept == InitReportDept /\ [][NextReportDept]_vars

\* ================================================================ claims

\* the messages a failed operation shows
FailureMessages ==
    {"Failed to punch in. Please try again.", "Failed to punch out. Please try again.",
     "Failed to update leave request", "Failed to submit leave request",
     "Failed to save employee"}

AtMostOnePerUserDate(rows) ==
    \A i, j \in 1..Len(rows) :
        (rows[i].user_id = rows[j].user_id /\ rows[i].date = rows[j].date) => i = j

\* C1 (as stated): the store never holds two attendance records for one
\* (user, date), and a punch-in for a (user, date) that already has a record
\* creates no record and, the store being reachable, fails with an error of
\* its own, distinct from the error shown for a store failure.
C1_OneRecordPerUserDate ==
    [][/\ AtMostOnePerUserDate(attendance')
       /\ \A p \in Pages, l \in Locations :
             (PunchInInsert(p, l, TRUE) /\ RowsOf(profile[p].id, Today) # {}) =>
                 /\ attendance' = attendance
                 /\ toast'.msg \notin {PunchInToast(None), PunchInToast("store")}]_vars

\* C2 (as stated): a punch-out on a record whose punch-out is already set
\* fails with an error and leaves the store unchanged.
C2_PunchOutOnlyOnOpenRecord ==
    [][\A p \in Pages, l \in Locations, ok \in BOOLEAN :
          (PunchOutDone(p, l, ok) /\ attendance[punchTarget[p]].punch_out # NullTime) =>
              /\ attendance' = attendance
              /\ toast'.msg \in FailureMessages]_vars

\* C3 (as stated): a decision issued on a request that is no longer PENDING
\* fails with an error and leaves the status, approver and approval timestamp
\* written by the earlier decision as they are.
C3_SecondDecisionFails ==
    [][\A p \in Pages, id \in 1..Len(leave_requests),
          st \in {"APPROVED", "REJECTED"}, ok \in BOOLEAN :
          (handleApproveReject(p, id, st, ok) /\ leave_requests[id].status # "PENDING") =>
              /\ leave_requests' = leave_requests
              /\ toast'.msg \in FailureMessages]_vars

\* C4 (as stated): once a request's status is APPROVED or REJECTED it keeps
\* that status; the only status changes are PENDING to APPROVED and PENDING
\* to REJECTED.
C4_StatusMonotonic ==
    [][\A id \in 1..Len(leave_requests) :
          leave_requests'[id].status # leave_requests[id].status =>
              /\ leave_requests[id].status = "PENDING"
              /\ leave_requests'[id].status \in {"APPROVED", "REJECTED"}]_vars

\* C5 (as stated): a decision issued by a caller whose role, at the time the
\* decision is issued, does not satisfy canManageEmployees fails with an error
\* and leaves the request unchanged.
C5_DecisionNeedsCapability ==
    [][\A p \in Pages, id \in 1..Len(leave_requests),
          st \in {"APPROVED", "REJECTED"}, ok \in BOOLEAN :
          (handleApproveReject(p, id, st, ok) /\ ~canManageEmployees(profiles[user[p]])) =>
              /\ leave_requests' = leave_requests
              /\ toast'.msg \in FailureMessages]_vars

\* C6 (as stated): for an authenticated caller on a route with an allow-list,
\* the protected page is rendered only when the caller's role is a member of
\* the allow-list; in every other case the guard redirects to /dashboard.
C6_AllowListDeniesNonMembers ==
    \A p \in Pages :
        (user[p] # None /\ ~loading[p] /\ RequiredRole(path[p]).given) =>
            IF RoleOf(profile[p]) \in RequiredRole(path[p]).roles
            THEN view[p].kind = "page"
            ELSE view[p] = NavigateTo("/dashboard")

\* C7: on every protected route, while no user is authenticated the protected
\* page is never rendered: the loading indicator while the session is loading,
\* a redirect to /auth once loading has finished.
C7_UnauthenticatedNeverSeesChildren ==
    \A p \in Pages :
        (user[p] = None /\ path[p] \in ProtectedPaths) =>
            /\ view[p].kind # "page"
            /\ loading[p] => view[p] = Spinner
            /\ ~loading[p] => view[p] = NavigateTo("/auth")

C7_Witness ==
    \E p \in Pages :
        /\ user[p] = None /\ ~loading[p]
        /\ path[p] = "/employees"
        /\ view[p] = NavigateTo("/auth")

\* C8: canManageEmployees returns true for exactly SUPERADMIN, ADMIN, HR, HOD
\* and MANAGER, and false for DIRECTOR, EMPLOYEE and an absent role.
C8_CanManageExactly ==
    \A i \in 1..Len(calls) :
        calls[i].fn = "canManageEmployees" =>
            (calls[i].result <=>
                calls[i].arg \in {"SUPERADMIN", "ADMIN", "HR", "HOD", "MANAGER"})

C8_Witness ==
    \E i, j \in 1..Len(calls) :
        /\ calls[i].fn = "canManageEmployees" /\ calls[i].arg = "DIRECTOR"
        /\ ~calls[i].result
        /\ calls[j].fn = "canManageEmployees" /\ calls[j].arg = "MANAGER"
        /\ calls[j].result

\* C9: isAdmin returns true for exactly SUPERADMIN, ADMIN and HR, false for
\* every other role and for an absent role; every role that satisfies isAdmin
\* also satisfies canManageEmployees.
C9_IsAdminExactly ==
    /\ \A i \in 1..Len(calls) :
          calls[i].fn = "isAdmin" =>
              (calls[i].result <=> calls[i].arg \in {"SUPERADMIN", "ADMIN", "HR"})
    /\ \A i, j \in 1..Len(calls) :
          (/\ calls[i].fn = "isAdmin" /\ calls[i].result
           /\ calls[j].fn = "canManageEmployees" /\ calls[j].arg = calls[i].arg)
              => calls[j].result

C9_Witness ==
    \E i, j \in 1..Len(calls) :
        /\ calls[i].fn = "isAdmin" /\ calls[i].arg = "HR" /\ calls[i].result
        /\ calls[j].fn = "canManageEmployees" /\ calls[j].arg = "HR"
        /\ calls[j].result

\* the filled-in forms whose end date is before their start date
EndBeforeStart ==
    {fd \in FormInputs :
        fd.start_date # 0 /\ fd.end_date # 0 /\ fd.end_date < fd.start_date}

\* C10: submitting the leave form with an end date before its start date is
\* refused with the range error of the end-date field and creates no request,
\* so every leave request in the store has end_date >= start_date.
C10_EndNotBeforeStart ==
    [][/\ \A p \in Pages, fd \in EndBeforeStart, ok \in BOOLEAN :
             SubmitLeave(p, fd, ok) =>
                 /\ leave_requests' = leave_requests
                 /\ toast' = [page |-> p, msg |-> "rangeUnderflow"]
       /\ \A i \in 1..Len(leave_requests') :
             leave_requests'[i].end_date >= leave_requests'[i].start_date]_vars

C10_Witness ==
    \E p \in Pages :
        /\ toast = [page |-> p, msg |-> "rangeUnderflow"]
        /\ showForm[p]
        /\ leave_requests = <<>>

\* the messages of the browser's constraint validation
ValidationMessages == {"valueMissing", "rangeUnderflow"}

\* forms with an empty reason or with a leave type outside leave_type_enum
InvalidSubmission ==
    {fd \in FormInputs : fd.reason = "" \/ fd.leave_type \notin LeaveTypes}

\* C11 (as stated): submitting a form with an empty reason, or with a leave
\* type that is not one of the six enumerated types (the form's initial empty
\* type included), is refused by validation before handleSubmit sends an
\* insert to the store, and creates no request.
C11_InvalidFormNeverReachesStore ==
    [][\A p \in Pages, fd \in InvalidSubmission, ok \in BOOLEAN :
          SubmitLeave(p, fd, ok) =>
              /\ ~InsertAttempted(p, fd)
              /\ toast' = [page |-> p, msg |-> FormViolation(fd)]
              /\ toast'.msg \in ValidationMessages
              /\ leave_requests' = leave_requests]_vars

\* forms the browser and the store both accept
AcceptedForms ==
    {fd \in FormInputs : FormViolation(fd) = None /\ fd.leave_type \in LeaveTypes}

Decided == {"APPROVED", "REJECTED"}

\* C12: a successful submission appends exactly one request to the store: its
\* requester is the submitting caller, its status is PENDING, its approver
\* and approval timestamp are unset, and every request already in the store
\* is left as it was.
C12_SubmitCreatesOnePending ==
    [][\A p \in Pages, fd \in AcceptedForms :
          (/\ SubmitLeave(p, fd, TRUE)
           /\ toast' = [page |-> p, msg |-> "Leave request submitted successfully"]) =>
              /\ Len(leave_requests') = Len(leave_requests) + 1
              /\ \A i \in 1..Len(leave_requests) : leave_requests'[i] = leave_requests[i]
              /\ LET r == leave_requests'[Len(leave_requests')] IN
                    /\ r.user_id = user[p]
                    /\ r.status = "PENDING"
                    /\ r.approved_by = None
                    /\ r.approved_at = NullTime
                    /\ r.leave_type = fd.leave_type /\ r.reason = fd.reason
                    /\ r.start_date = fd.start_date /\ r.end_date = fd.end_date]_vars

C12_Witness ==
    /\ Len(leave_requests) = 2
    /\ toast.msg = "Leave request submitted successfully"
    /\ leave_requests[1].status \in Decided
    /\ leave_requests[2].status = "PENDING"
    /\ leave_requests[2].user_id = user[toast.page]
    /\ leave_requests[2].approved_by = None

\* C13: a successful decision on a PENDING request sets its status to the
\* chosen target, its approver to the deciding caller and its approval
\* timestamp to the current time; every other field of the request and every
\* other request is left as it was.
C13_DecisionWritesThreeFields ==
    [][\A p \in Pages, id \in 1..Len(leave_requests), st \in Decided :
          (/\ handleApproveReject(p, id, st, TRUE)
           /\ leave_requests[id].status = "PENDING") =>
              /\ Len(leave_requests') = Len(leave_requests)
              /\ \A i \in 1..Len(leave_requests) :
                    i # id => leave_requests'[i] = leave_requests[i]
              /\ LET old == leave_requests[id]
                     new == leave_requests'[id]
                 IN /\ new.status = st
                    /\ new.approved_by = user[p]
                    /\ new.approved_at = now
                    /\ new.user_id = old.user_id /\ new.leave_type = old.leave_type
                    /\ new.start_date = old.start_date /\ new.end_date = old.end_date
                    /\ new.reason = old.reason]_vars

C13_Witness ==
    /\ Len(leave_requests) = 2
    /\ toast.msg = "Leave request decided"
    /\ \E i, j \in 1..2 :
          /\ leave_requests[i].status \in Decided
          /\ leave_requests[i].approved_by = user[toast.page]
          /\ leave_requests[j].status = "PENDING"
          /\ leave_requests[j].approved_by = None

\* C14 (as stated): a request carries an approver and an approval timestamp
\* exactly when its status is APPROVED or REJECTED, and the approver and the
\* timestamp are written only by the decision that moves the request out of
\* PENDING.
C14_ApproverIffDecided ==
    [][\A id \in 1..Len(leave_requests') :
          LET new == leave_requests'[id] IN
          /\ new.approved_by # None <=> new.status \in Decided
          /\ new.approved_at # NullTime <=> new.status \in Decided
          /\ id <= Len(leave_requests) =>
                LET old == leave_requests[id] IN
                (new.approved_by # old.approved_by \/ new.approved_at # old.approved_at)
                    => old.status = "PENDING"]_vars

\* the calendar order of two dates
DateLeq(a, b) == <<a.y, a.m, a.d>> = <<b.y, b.m, b.d>> \/ a.y < b.y
                 \/ (a.y = b.y /\ a.m < b.m) \/ (a.y = b.y /\ a.m = b.m /\ a.d < b.d)

\* every calendar date of the years the evaluated dates lie in
DatesOfYears ==
    {date \in [y : 2023..2025, m : 1..12, d : 1..31] : date.d <= DaysInMonth(date.y, date.m)}

\* the number of calendar dates from a to b, both included
InclusiveDays(a, b) ==
    Cardinality({date \in DatesOfYears : DateLeq(a, date) /\ DateLeq(date, b)})

\* C15: for calendar dates with end >= start, the duration both calculateDays
\* functions display is the inclusive day count; 2024-01-01..2024-01-03 gives
\* 3 and 2024-03-01..2024-03-02 gives 2.
C15_DurationIsInclusiveCount ==
    \A i \in 1..Len(calls) :
        LET s == calls[i].arg[1]
            e == calls[i].arg[2]
        IN (s # EmptyDate /\ e # EmptyDate /\ DateLeq(s, e)) =>
              /\ calls[i].result = InclusiveDays(s, e)
              /\ (s = [y |-> 2024, m |-> 1, d |-> 1] /\ e = [y |-> 2024, m |-> 1, d |-> 3])
                    => calls[i].result = 3
              /\ (s = [y |-> 2024, m |-> 3, d |-> 1] /\ e = [y |-> 2024, m |-> 3, d |-> 2])
                    => calls[i].result = 2

C15_Witness ==
    /\ calls # <<>>
    /\ calls[1].fn = "LeavePage.calculateDays"
    /\ calls[1].arg = <<[y |-> 2024, m |-> 2, d |-> 28], [y |-> 2024, m |-> 3, d |-> 1]>>
    /\ calls[1].result = 3

\* C16: a successful punch-in for a (caller, current date) without a record
\* appends exactly one record: for that caller and date, punch-in = now,
\* status PRESENT, location-in = the resolved location, punch-out, location-out
\* and total hours unset; every record already in the store is left as it was.
C16_PunchInCreatesOneRecord ==
    [][\A p \in Pages, l \in Locations :
          (/\ PunchInInsert(p, l, TRUE)
           /\ RowsOf(user[p], Today) = {}) =>
              /\ toast' = [page |-> p, msg |-> "Punched In!"]
              /\ Len(attendance') = Len(attendance) + 1
              /\ \A i \in 1..Len(attendance) : attendance'[i] = attendance[i]
              /\ LET r == attendance'[Len(attendance')] IN
                    /\ r.user_id = user[p] /\ r.date = now \div TicksPerDay
                    /\ r.punch_in = now
                    /\ r.status = "PRESENT"
                    /\ r.location_in = l
                    /\ r.punch_out = NullTime /\ r.location_out = None
                    /\ r.total_hours = NullTime]_vars

C16_Witness ==
    /\ Len(attendance) = 2
    /\ toast.msg = "Punched In!"
    /\ attendance[1].user_id # attendance[2].user_id
    /\ attendance[1].punch_out # NullTime
    /\ attendance[2].punch_out = NullTime
    /\ attendance[2].location_in = "Location not available"
    /\ attendance[2].status = "PRESENT"

C18_TerminalAfterPunchOut ==
    [][\A i \in 1..Len(attendance) :
          attendance[i].punch_out # NullTime =>
              /\ attendance'[i].punch_in = attendance[i].punch_in
              /\ attendance'[i].punch_out = attendance[i].punch_out
              /\ attendance'[i].location_in = attendance[i].location_in
              /\ attendance'[i].location_out = attendance[i].location_out
              /\ attendance'[i].status = attendance[i].status]_vars

\* C19 (as stated): whatever the geolocation capability does, every started
\* punch-in or punch-out eventually gets its location, issues its store
\* request and sets isLoading back to false.
C19_PunchEventuallyCompletes ==
    \A p \in Pages :
        (pc[p] \in {"punchIn", "punchOut"}) ~> (pc[p] = "idle" /\ ~isLoading[p])

\* C20: every record has status PRESENT from its creation on, and no step
\* changes the status, punch-in timestamp or location-in of a record: a
\* punch-out writes punch-out and location-out only.
C20_StatusStaysPresent ==
    [][/\ \A i \in 1..Len(attendance') : attendance'[i].status = "PRESENT"
       /\ \A i \in 1..Len(attendance) :
             /\ attendance'[i].status = attendance[i].status
             /\ attendance'[i].punch_in = attendance[i].punch_in
             /\ attendance'[i].location_in = attendance[i].location_in
             /\ attendance'[i].user_id = attendance[i].user_id
             /\ attendance'[i].date = attendance[i].date]_vars

C20_Witness ==
    \E i \in 1..Len(attendance) :
        /\ attendance[i].status = "PRESENT"
        /\ attendance[i].punch_out # NullTime
        /\ attendance[i].punch_in = attendance[i].punch_out
        /\ attendance[i].location_out = "12.9, 77.5"
        /\ attendance[i].location_in = "Geolocation not supported"

\* C21 (as stated): the own-requests list shown to a caller holds only the
\* caller's requests, newest first, and a caller whose current role does not
\* satisfy canManageEmployees is never shown another user's request, whatever
\* role changes came before.
C21_LeaveVisibility ==
    \A p \in Pages :
        /\ MyRequestsShown(p) =>
              /\ \A i \in 1..Len(myRequests[p]) : myRequests[p][i].user_id = user[p]
              /\ \A i, j \in 1..Len(myRequests[p]) :
                    i < j => myRequests[p][i].id > myRequests[p][j].id
        /\ (/\ AllRequestsShown(p)
            /\ \E i \in 1..Len(leaveRequests[p]) : leaveRequests[p][i].user_id # user[p])
              => canManageEmployees(profiles[user[p]])

\* the PRESENT records of a date
PresentIds(d) ==
    {i \in 1..Len(attendance) : attendance[i].date = d /\ attendance[i].status = "PRESENT"}

\* the sum of the total hours of a set of records, a record without hours
\* counting 0
RECURSIVE HoursOf(_)
HoursOf(S) ==
    IF S = {} THEN 0
    ELSE LET i == CHOOSE j \in S : TRUE
         IN (IF attendance[i].total_hours = NoHours THEN 0 ELSE attendance[i].total_hours)
            + HoursOf(S \ {i})

\* x is the number sum / count
IsQuotient(x, sum, count) ==
    x.kind = "number" /\ x.num * count = sum * x.den

\* x is sum / count rounded to one decimal, halves upwards
IsRoundedQuotient(x, sum, count) ==
    /\ x.kind = "number"
    /\ (10 * x.num) % x.den = 0
    /\ LET k == (10 * x.num) \div x.den
       IN /\ 2 * count * k <= 20 * sum + count
          /\ 20 * sum + count < 2 * count * (k + 1)

\* the dates that have a record
RecordDates == {attendance[i].date : i \in 1..Len(attendance)}

\* the today average set by a fetchAttendanceStats whose reads succeed: 0
\* without a PRESENT record for today, else their hours divided by their count
TodayAverageIsQuotient(p) ==
    FetchMonthly(p, TRUE) =>
        IF PresentIds(Today) = {}
        THEN stats'[p].avgHoursPerDay = Whole(0)
        ELSE IsQuotient(stats'[p].avgHoursPerDay, HoursOf(PresentIds(Today)),
                        Cardinality(PresentIds(Today)))

\* C22 (as stated): the today average and every day's avgHours are defined
\* numbers: 0 when the day has no PRESENT record, else the sum of the total
\* hours of the day's PRESENT records divided by their count.
C22_AverageIsQuotient ==
    [][\A p \in Pages :
         /\ TodayAverageIsQuotient(p)
         /\ FetchWeekly(p, TRUE) =>
               \A d \in RecordDates : \E e \in weeklyData'[p] :
                   /\ e.date = d
                   /\ IF PresentIds(d) = {}
                      THEN e.avgHours = Whole(0)
                      ELSE IsQuotient(e.avgHours, HoursOf(PresentIds(d)),
                                      Cardinality(PresentIds(d)))]_vars

\* C22 (amended): as C22, except that a day's avgHours in the weekly data is
\* the quotient rounded to one decimal.
C22_WeeklyAverageIsRounded ==
    [][\A p \in Pages :
         /\ TodayAverageIsQuotient(p)
         /\ FetchWeekly(p, TRUE) =>
               \A d \in RecordDates : \E e \in weeklyData'[p] :
                   /\ e.date = d
                   /\ IF PresentIds(d) = {}
                      THEN e.avgHours = Whole(0)
                      ELSE IsRoundedQuotient(e.avgHours, HoursOf(PresentIds(d)),
                                             Cardinality(PresentIds(d)))]_vars

\* the statistics are shown for a day whose average has more than one decimal
C22_Witness ==
    \E p \in Pages :
        /\ OnReportsPage(p) /\ pc[p] = "idle"
        /\ stats[p].avgHoursPerDay.kind = "number" /\ stats[p].avgHoursPerDay.den = 3
        /\ \E e \in weeklyData[p] : e.present = 3 /\ e.avgHours.den = 10

\* k is round(present / total x 100), halves upwards
IsRoundedPercentage(k, present, total) ==
    /\ 2 * total * k <= 200 * present + total
    /\ 200 * present + total < 2 * total * (k + 1)

\* C23: every entry of departmentData has a non-zero total and the defined
\* percentage round(present / total x 100); no entry is computed by a division
\* by a zero total.
C23_PercentageDefined ==
    \A p \in Pages : \A e \in departmentData[p] :
        /\ e.total > 0
        /\ e.percentage.kind = "number"
        /\ e.percentage.den = 1
        /\ IsRoundedPercentage(e.percentage.num, e.present, e.total)

\* a department of two employees, one of them present, is shown with 50%
C23_Witness ==
    \E p \in Pages : \E e \in departmentData[p] :
        e.total = 2 /\ e.present = 1 /\ e.percentage = Whole(50)

\* C29 (as stated): every result of fetchDepartmentAttendance has
\* 0 <= present <= total and 0 <= percentage <= 100 in each entry, and an entry
\* for the department of every present employee, whatever another user
\* changes between its two reads.
C29_DepartmentResultConsistent ==
    [][\A p \in Pages :
         FetchDeptAll(p, TRUE) =>
            /\ \A e \in departmentData'[p] :
                  /\ 0 <= e.present /\ e.present <= e.total
                  /\ e.percentage.kind = "number"
                  /\ e.percentage.num <= 100 * e.percentage.den
            /\ \A x \in frame[p].data :
                  x.status = "PRESENT" =>
                     \E e \in departmentData'[p] : e.department = x.department]_vars

\* C30 (as stated): the percentage of the Present Today card is a defined
\* value between 0 and 100 whenever ReportsPage renders it.
C30_PresentTodayPercentDefined ==
    \A p \in Pages :
        OnReportsPage(p) =>
            /\ PresentTodayPercent(stats[p]).kind = "number"
            /\ PresentTodayPercent(stats[p]).num <= 100

\* page p receives a failure response to one of its store operations
StoreFailure(p) ==
    \/ FetchMyDone(p, FALSE)
    \/ FetchAllDone(p, FALSE)
    \/ \E id \in 1..Len(leave_requests), st \in {"APPROVED", "REJECTED"} :
          handleApproveReject(p, id, st, FALSE)
    \/ \E fd \in FormInputs : FormViolation(fd) = None /\ SubmitLeave(p, fd, FALSE)
    \/ FetchTodayDone(p, FALSE)
    \/ \E l \in Locations : PunchInInsert(p, l, FALSE)
    \/ \E l \in Locations : PunchOutDone(p, l, FALSE)
    \/ FetchEmployeesCount(p, FALSE)
    \/ FetchPresentToday(p, FALSE)
    \/ FetchMonthly(p, FALSE)
    \/ FetchDeptPresent(p, FALSE)
    \/ FetchDeptAll(p, FALSE)
    \/ FetchWeekly(p, FALSE)

\* C24 (as stated): a failure response to a store operation of the attendance,
\* leave or reporting page shows a failure message on that page, and the page
\* is not left loading when its handler has ended.
C24_FailureShowsMessage ==
    [][\A p \in Pages :
         StoreFailure(p) =>
            /\ toast'.page = p
            /\ toast'.msg \in FailureMessages
            /\ pc'[p] = "idle" => ~isLoading'[p]]_vars

\* page p performs a profile read, update or deletion of the employee page
EmployeeStoreOperation(p) ==
    \/ \E ok \in BOOLEAN : FetchEmployeesDone(p, ok)
    \/ \E e \in Users, r \in Roles, d \in Depts \cup {None}, a \in BOOLEAN, ok \in BOOLEAN :
          EmployeeFormUpdate(p, e, r, d, a, ok)
    \/ \E e \in Users, ok \in BOOLEAN : handleDeleteEmployee(p, e, ok)

\* a caller whose session has no profile, or one whose role does not satisfy
\* canManageEmployees, and who is shown EmployeesPage sees the no-permission
\* message and has no store operation in flight
NoPermissionShown ==
    \A p \in Pages :
        (/\ view[p].kind = "page" /\ view[p].page = "EmployeesPage"
         /\ ~canManageEmployees(RoleOf(profile[p])))
            => view[p].body = "noPermission" /\ pc[p] = "idle"

\* C25 (as stated): the employee page reads, updates and deletes profiles only
\* while the caller's role in the store satisfies canManageEmployees, and a
\* caller without that capability or without a profile sees the no-permission
\* message and issues no store operation.
C25_EmployeeOpsNeedCapability ==
    /\ []NoPermissionShown
    /\ [][\A p \in Pages :
            EmployeeStoreOperation(p) => canManageEmployees(profiles[user[p]])]_vars

\* the number of redirects that follow the request of path pa, counted up to n
RECURSIVE Redirects(_, _, _, _)
Redirects(u, pr, pa, n) ==
    IF n = 0 \/ AppContent(u, pr, FALSE, pa).kind # "Navigate" THEN 0
    ELSE 1 + Redirects(u, pr, AppContent(u, pr, FALSE, pa).to, n - 1)

\* C26: once loading has finished, the redirects of AppContent and
\* ProtectedRoute from any of the routed paths reach a page that renders
\* without redirecting after at most two redirects.
C26_RedirectsTerminate ==
    \A p \in Pages :
        ~loading[p] =>
            \A pa \in Paths \ {"/other"} : Redirects(user[p], profile[p], pa, 3) <= 2

\* a signed-in employee who requested /employees is being redirected, and the
\* target renders a page
C26_Witness ==
    \E p \in Pages :
        /\ ~loading[p] /\ user[p] # None /\ RoleOf(profile[p]) = "EMPLOYEE"
        /\ path[p] = "/employees" /\ view[p].kind = "Navigate"
        /\ AppContent(user[p], profile[p], FALSE, view[p].to).kind = "page"

\* C27: for the role of every signed-in caller, the route guard of /employees
\* and of /reports lets the role through exactly when canManageEmployees holds
\* of it, that of /departments exactly when isAdmin holds of it, and the page
\* behind the guard then shows its content.
C27_RouteAndPageAgree ==
    \A p \in Pages :
        (~loading[p] /\ user[p] # None /\ profile[p] # NoProfile) =>
            \A pa \in {"/employees", "/reports", "/departments"} :
                LET v == AppContent(user[p], profile[p], FALSE, pa)
                IN /\ (v.kind = "page") =
                         (IF pa = "/departments" THEN isAdmin(profile[p].role)
                          ELSE canManageEmployees(profile[p].role))
                   /\ v.kind = "page" => v.body = "content"

\* a head of department is shown the employee page and is turned away from
\* the departments page
C27_Witness ==
    \E p \in Pages :
        /\ RoleOf(profile[p]) = "HOD"
        /\ path[p] = "/employees" /\ view[p].kind = "page" /\ view[p].body = "content"
        /\ AppContent(user[p], profile[p], FALSE, "/departments").kind = "Navigate"

\* C28 (as stated): the record a punch-out updates is the caller's record of
\* the date at the moment of the punch-out, also when the page has stayed open
\* across a change of date.
C28_PunchOutWritesToday ==
    [][\A p \in Pages : \A l \in Locations :
         PunchOutDone(p, l, TRUE) =>
            /\ attendance[punchTarget[p]].user_id = profile[p].id
            /\ attendance[punchTarget[p]].date = Today]_vars
====
